---- MODULE Spec2Model ----
(***************************************************************************)
(* GoDFS namenode (src/namenode/namenode.go).                              *)
(*                                                                         *)
(* The source file holds two variants of the namenode, one after the       *)
(* other: lines 1-534 (variant 1: MergeNode returns an error, replies      *)
(* with ERROR, random placement) and lines 536-1036 (variant 2: MergeNode  *)
(* recovers from panics, least-loaded placement).  The variable `variant`  *)
(* says which one runs; it is fixed by Init.                               *)
(*                                                                         *)
(* Strings that the code splits and joins (file names) are sequences of    *)
(* one-character strings; peer ids are only compared and stay strings.     *)
(* Tasks: one receiver per connection (HandleConnection), the header       *)
(* merger (HandleBlockHeaders) and the sender (SendPackets).  Both         *)
(* channels are unbuffered (make(chan T)): a send and its receive are one  *)
(* rendezvous step.                                                        *)
(***************************************************************************)
EXTENDS Integers, Sequences, FiniteSets, TLC

\* ------------------------------------------------------------------ bounds
MaxConns == 2      \* connections the listener accepts
MaxPackets == 3    \* calls of Decode over all connections
MaxBalancing == 4  \* the same in the runs of Balancing, which place two blocks

\* ------------------------------------------------------- command codes
HB == 0
LIST == 1
ACK == 2
BLOCK == 3
BLOCKACK == 4
RETRIEVEBLOCK == 5
DISTRIBUTE == 6
GETHEADERS == 7
ERROR == 8

id == "NN"
ClientID == "C"

\* ------------------------------------------------------------ data types
BlockHeader(dn, fname, size, bn, nb) ==
  [DatanodeID |-> dn, Filename |-> fname, Size |-> size, BlockNum |-> bn, NumBlocks |-> nb]

ZeroHeader == BlockHeader("", <<>>, 0, 0, 0)

Block(h, data) == [Header |-> h, Data |-> data]

ZeroBlock == Block(ZeroHeader, "")

Packet(src, dst, cmd, err, data, headers) ==
  [SRC |-> src, DST |-> dst, CMD |-> cmd, Err |-> err, Data |-> data, Headers |-> headers]

ZeroPacket == Packet("", "", 0, <<>>, ZeroBlock, <<>>)

datanode(dnid, listed, size) == [ID |-> dnid, listed |-> listed, size |-> size]

NilNode == 0
RootNode == 1

filenode(path, parent, children) == [path |-> path, parent |-> parent, children |-> children]

\* root = &filenode{"/", nil, make([]*filenode, 0, 5)}
InitTree == <<filenode(<<"/">>, NilNode, <<>>)>>

\* ------------------------------------------------------ strings.Split/Join
RECURSIVE SplitFrom(_, _, _)
SplitFrom(s, i, cur) ==
  IF i > Len(s) THEN <<cur>>
  ELSE IF s[i] = "/" THEN <<cur>> \o SplitFrom(s, i + 1, <<>>)
  ELSE SplitFrom(s, i + 1, Append(cur, s[i]))

\* strings.Split(s, "/")
Split(s) == SplitFrom(s, 1, <<>>)

\* strings.Join(arr, "/")
RECURSIVE Join(_)
Join(arr) ==
  IF Len(arr) = 0 THEN <<>>
  ELSE IF Len(arr) = 1 THEN arr[1]
  ELSE Join(SubSeq(arr, 1, Len(arr) - 1)) \o <<"/">> \o arr[Len(arr)]

\* --------------------------------------------------------- ContainsHeader
ContainsHeaderAlwaysFalse(arr, h) == FALSE

ContainsHeader(arr, h) == \E k \in 1..Len(arr) : arr[k] = h

\* ------------------------------------------------------------- MergeNode
\* The namespace a merge works on: st = [tree, filemap, dmap, res].
\* res: "run" while the loop runs, then "nil" (returned nil / fell off the end),
\* "err" (returned an error, or returned early in variant 2), "panic".

\* for _, v := range q.children { if v.path == partial {...} }: the loop stops at
\* the first nil child (v.path dereferences nil) or at the first match.
RECURSIVE ScanChildren(_, _, _, _)
ScanChildren(t, ch, partial, k) ==
  IF k > Len(ch) THEN [found |-> FALSE, panic |-> FALSE, node |-> NilNode]
  ELSE IF ch[k] = NilNode THEN [found |-> FALSE, panic |-> TRUE, node |-> NilNode]
  ELSE IF t[ch[k]].path = partial THEN [found |-> TRUE, panic |-> FALSE, node |-> ch[k]]
  ELSE ScanChildren(t, ch, partial, k + 1)

AddSize(dmap, dn, n) == [dmap EXCEPT ![dn].size = @ + n]

\* variant 1, lines 189-203: the file node exists already
MergeExisting1(h, st) ==
  LET path == h.Filename IN
  IF path \notin DOMAIN st.filemap THEN [st EXCEPT !.res = "err"]
  ELSE
    LET blks == st.filemap[path]
        fm == IF h.BlockNum \notin DOMAIN blks
                THEN [st.filemap EXCEPT ![path] = (h.BlockNum :> <<h>>) @@ blks]
              ELSE IF ~ContainsHeader(blks[h.BlockNum], h)
                THEN [st.filemap EXCEPT ![path][h.BlockNum] = Append(@, h)]
              ELSE st.filemap
    IN [st EXCEPT !.filemap = fm, !.dmap = AddSize(st.dmap, h.DatanodeID, h.Size)]

\* variant 2, lines 706-715
MergeExisting2(h, st) ==
  LET path == h.Filename IN
  IF path \notin DOMAIN st.filemap \/ h.BlockNum \notin DOMAIN st.filemap[path]
    THEN [st EXCEPT !.res = "err"]
  ELSE IF ContainsHeader(st.filemap[path][h.BlockNum], h) THEN st
  ELSE
    LET fm == [st.filemap EXCEPT ![path][h.BlockNum] = Append(@, h)] IN
    IF h.DatanodeID \notin DOMAIN st.dmap
      THEN [st EXCEPT !.filemap = fm, !.res = "panic"]
      ELSE [st EXCEPT !.filemap = fm, !.dmap = AddSize(st.dmap, h.DatanodeID, h.Size)]

\* lines 212-223 / 725-739: create the node, and the map entry when it is the file
MergeCreate(v, h, partial, q, st) ==
  LET n == Len(st.tree) + 1
      t1 == Append(st.tree, filenode(partial, q, <<NilNode>>))
      t2 == [t1 EXCEPT ![q].children = Append(@, n)]
      isFile == partial = h.Filename
      fm == IF isFile
              THEN (partial :> (h.BlockNum :> <<h>>)) @@ st.filemap
              ELSE st.filemap
      dm == IF isFile /\ v = 1 THEN AddSize(st.dmap, h.DatanodeID, h.Size) ELSE st.dmap
  IN [st EXCEPT !.tree = t2, !.filemap = fm, !.dmap = dm]

\* the loop of lines 171-226 / 687-742 from Go index i (i >= 1) on, at node q
RECURSIVE MergeWalk(_, _, _, _, _, _)
MergeWalk(v, h, arr, i, q, st) ==
  IF i >= Len(arr) THEN [st EXCEPT !.res = "nil"]
  ELSE
    LET joined == Join(SubSeq(arr, 1, i + 1))
        scan == ScanChildren(st.tree, st.tree[q].children, joined, 1)
    IN
    IF scan.panic THEN [st EXCEPT !.res = "panic"]
    ELSE IF scan.found THEN
      LET partial == IF v = 2 THEN joined \o <<"/">> ELSE joined
          st2 == IF partial = h.Filename
                   THEN (IF v = 1 THEN MergeExisting1(h, st) ELSE MergeExisting2(h, st))
                   ELSE st
      IN IF st2.res # "run" THEN st2 ELSE MergeWalk(v, h, arr, i + 1, scan.node, st2)
    ELSE
      MergeWalk(v, h, arr, i + 1, Len(st.tree) + 1, MergeCreate(v, h, joined, q, st))

\* line 158 (variant 1 only); Size is a uint64 and cannot be negative
InvalidHeader(h) ==
  h.DatanodeID = "" \/ h.Filename = <<>> \/ h.BlockNum < 0 \/ h.NumBlocks < h.BlockNum

MergeNode(v, h, t, fm, dm) ==
  LET st == [tree |-> t, filemap |-> fm, dmap |-> dm, res |-> "run"] IN
  IF v = 1 /\ InvalidHeader(h) THEN [st EXCEPT !.res = "err"]
  ELSE IF v = 1 /\ h.DatanodeID \notin DOMAIN dm THEN [st EXCEPT !.res = "err"]
  ELSE MergeWalk(v, h, Split(h.Filename), 1, RootNode, st)

\* filemap as a task that reads it without a lock can find it while MergeNode(h)
\* runs in the merger: as it was before the call, as the call leaves it, or
\* between the map writes of lines 213-215 / 726-728 (the entry of a new file is
\* there and empty, then holds the slot with a zero header) and of lines 196-197
\* (the new slot of a known file holds a zero header)
MergeViews(v, h, t, fm, dm) ==
  LET done == MergeNode(v, h, t, fm, dm).filemap
      f == h.Filename
      bn == h.BlockNum
      newFile == f \notin DOMAIN fm /\ f \in DOMAIN done
      newSlot == f \in DOMAIN fm /\ bn \notin DOMAIN fm[f] /\ bn \in DOMAIN done[f]
  IN {fm, done}
       \cup (IF newFile THEN {(f :> <<>>) @@ fm, (f :> (bn :> <<ZeroHeader>>)) @@ fm} ELSE {})
       \cup (IF newSlot THEN {[fm EXCEPT ![f] = (bn :> <<ZeroHeader>>) @@ @]} ELSE {})

\* ------------------------------------------------------- DistributeBlock
\* lines 255-267 (rand.Intn over the ids) / 769-782 (head of the slice sorted by
\* size; sort.Sort keeps no order among equal sizes and the slice is filled in map
\* order, so any datanode of least size can be the head)
DistributeChoicesAny(v, dm) == DOMAIN dm

DistributeChoices(v, dm) ==
  IF v = 1 THEN DOMAIN dm
  ELSE {d \in DOMAIN dm : \A e \in DOMAIN dm : dm[d].size <= dm[e].size}

\* the BLOCK packet of lines 264-273 / 780-789 for the chosen datanode dst
DistributePacketUnpatched(b, dst) == Packet(id, dst, BLOCK, <<>>, b, <<>>)

DistributePacket(b, dst) ==
  Packet(id, dst, BLOCK, <<>>, Block([b.Header EXCEPT !.DatanodeID = dst], b.Data), <<>>)

\* ----------------------------------------------------------- HandlePacket
\* What one call does up to its first channel send:
\*   hdrs   headers it will send on headerChannel, in order
\*   out    packets it will send on sendChannel, in order (after hdrs)
\*   cm, dm clientMap and datanodemap as it leaves them
\*   list   TRUE when dn.listed = true follows the header sends (line 414)
\*   panic  TRUE when the deferred recover caught a panic (nothing more is sent)
HResult(hdrs, out, cm, dm, list, panic) ==
  [hdrs |-> hdrs, out |-> out, cm |-> cm, dm |-> dm, list |-> list, panic |-> panic]

\* line 328: r := Packet{id, p.SRC, ACK, "", *new(Block), make([]BlockHeader, 0)}
Reply(p) == Packet(id, p.SRC, ACK, <<>>, ZeroBlock, <<>>)

\* lines 341-357 / 857-871
RetrieveBlockWrongDst(v, p, cm, dm) ==
  HResult(<<>>, <<[Reply(p) EXCEPT !.CMD = RETRIEVEBLOCK, !.Headers = p.Headers]>>,
          (p.Headers[1] :> p.SRC) @@ cm, dm, FALSE, FALSE)

RetrieveBlock(v, p, cm, dm) ==
  IF Len(p.Headers) # 1 THEN
    IF v = 1
      THEN HResult(<<>>, <<[Reply(p) EXCEPT !.CMD = ERROR,
                                              !.Err = <<"Invalid Header received">>]>>,
                   cm, dm, FALSE, FALSE)
      ELSE HResult(<<>>, <<>>, cm, dm, FALSE, FALSE)
  ELSE
    HResult(<<>>,
            <<[Reply(p) EXCEPT !.CMD = RETRIEVEBLOCK, !.DST = p.Headers[1].DatanodeID,
                               !.Headers = p.Headers]>>,
            (p.Headers[1] :> p.SRC) @@ cm, dm, FALSE, FALSE)

\* lines 385-391 / 886-892: blockMap[i][0] for i < numBlocks; indexing the nil
\* slice of a missing block number panics
BuildHeadersLast(blockMap) ==
  LET numBlocks == blockMap[0][1].NumBlocks IN
  [panic |-> \E i \in 0..(numBlocks - 1) : i \notin DOMAIN blockMap,
   headers |-> [k \in 1..numBlocks |->
                  IF (k - 1) \in DOMAIN blockMap
                    THEN blockMap[k - 1][Len(blockMap[k - 1])] ELSE ZeroHeader]]

BuildHeaders(blockMap) ==
  LET numBlocks == blockMap[0][1].NumBlocks IN
  [panic |-> \E i \in 0..(numBlocks - 1) : i \notin DOMAIN blockMap,
   headers |-> [k \in 1..numBlocks |->
                  IF (k - 1) \in DOMAIN blockMap THEN blockMap[k - 1][1] ELSE ZeroHeader]]

\* lines 359-392 / 873-892
GetHeaders(v, p, fm, cm, dm) ==
  IF Len(p.Headers) # 1 THEN
    IF v = 1
      THEN HResult(<<>>, <<[Reply(p) EXCEPT !.CMD = ERROR,
                                              !.Err = <<"Invalid Header received">>]>>,
                   cm, dm, FALSE, FALSE)
      ELSE HResult(<<>>, <<>>, cm, dm, FALSE, FALSE)
  ELSE
    LET fname == p.Headers[1].Filename IN
    IF fname \notin DOMAIN fm THEN
      IF v = 1
        THEN HResult(<<>>, <<[Reply(p) EXCEPT !.CMD = ERROR,
                                                !.Err = <<"File not found ">> \o fname]>>,
                     cm, dm, FALSE, FALSE)
        ELSE HResult(<<>>, <<>>, cm, dm, FALSE, TRUE)
    ELSE IF 0 \notin DOMAIN fm[fname] THEN
      IF v = 1
        THEN HResult(<<>>, <<[Reply(p) EXCEPT !.CMD = ERROR,
                               !.Err = <<"Could not locate first block in file">>]>>,
                     cm, dm, FALSE, FALSE)
        ELSE HResult(<<>>, <<>>, cm, dm, FALSE, TRUE)
    ELSE
      LET b == BuildHeaders(fm[fname]) IN
      IF b.panic THEN HResult(<<>>, <<>>, cm, dm, FALSE, TRUE)
      ELSE HResult(<<>>, <<[Reply(p) EXCEPT !.CMD = GETHEADERS, !.Headers = b.headers]>>,
                   cm, dm, FALSE, FALSE)

\* lines 336-340 / 852-856 with DistributeBlock; dst is the datanode it picks
DistributeUnchecked(v, p, cm, dm, dst) ==
  HResult(<<>>, <<DistributePacket(p.Data, dst), Reply(p)>>, cm, dm, FALSE, FALSE)

Distribute(v, p, cm, dm, dst) ==
  IF DOMAIN dm = {} THEN HResult(<<>>, <<Reply(p)>>, cm, dm, FALSE, FALSE)
  ELSE
    HResult(<<>>, <<DistributePacket(p.Data, dst), Reply(p)>>, cm,
            IF v = 2 THEN AddSize(dm, dst, p.Data.Header.Size) ELSE dm, FALSE, FALSE)

\* lines 400-405 / 901-906
HeartbeatAlwaysAck(p, listed) == [Reply(p) EXCEPT !.CMD = ACK]

Heartbeat(p, listed) == [Reply(p) EXCEPT !.CMD = IF ~listed THEN LIST ELSE ACK]

\* lines 395-441 / 896-943
HandleDatanode(v, p, cm, dm) ==
  IF p.SRC \notin DOMAIN dm THEN HResult(<<>>, <<>>, cm, dm, FALSE, TRUE)
  ELSE IF p.CMD = HB THEN
    HResult(<<>>, <<Heartbeat(p, dm[p.SRC].listed)>>, cm, dm, FALSE, FALSE)
  ELSE IF p.CMD = LIST THEN HResult(p.Headers, <<Reply(p)>>, cm, dm, TRUE, FALSE)
  ELSE IF p.CMD = BLOCKACK THEN
    IF Len(p.Headers) = 1 THEN HResult(p.Headers, <<Reply(p)>>, cm, dm, FALSE, FALSE)
    ELSE IF Len(p.Headers) = 0 THEN HResult(<<>>, <<>>, cm, dm, FALSE, TRUE)
    ELSE HResult(<<>>, <<Reply(p)>>, cm, dm, FALSE, FALSE)
  ELSE IF p.CMD = BLOCK THEN
    HResult(<<>>, <<[Reply(p) EXCEPT !.DST = ClientID, !.CMD = BLOCK, !.Data = p.Data]>>,
            cm, dm, FALSE, FALSE)
  ELSE HResult(<<>>, <<Reply(p)>>, cm, dm, FALSE, FALSE)

\* lines 313-447 / 829-949
HandlePacket(v, p, fm, cm, dm, dst) ==
  IF p.SRC = "" THEN HResult(<<>>, <<>>, cm, dm, FALSE, FALSE)
  ELSE IF p.SRC = ClientID THEN
    IF p.CMD = HB THEN HResult(<<>>, <<>>, cm, dm, FALSE, FALSE)
    ELSE IF p.CMD = DISTRIBUTE THEN Distribute(v, p, cm, dm, dst)
    ELSE IF p.CMD = RETRIEVEBLOCK THEN RetrieveBlock(v, p, cm, dm)
    ELSE IF p.CMD = GETHEADERS THEN GetHeaders(v, p, fm, cm, dm)
    ELSE HResult(<<>>, <<Reply(p)>>, cm, dm, FALSE, FALSE)
  ELSE HandleDatanode(v, p, cm, dm)

\* ------------------------------------------------------------ the inputs
Pab == <<"/", "a", "/", "b">>
Pf == <<"/", "f">>
Pnope == <<"/", "n">>

hA0 == BlockHeader("D1", Pab, 500, 0, 2)
hA1 == BlockHeader("D1", Pab, 500, 1, 2)
hF0 == BlockHeader("D1", Pf, 500, 0, 2)
hF1 == BlockHeader("D1", Pf, 500, 1, 2)
hG0 == BlockHeader("D2", Pf, 300, 0, 1)
hE == BlockHeader("D1", Pf, 500, 2, 2)
hUnknown == BlockHeader("D9", Pf, 500, 0, 2)
hEmpty == BlockHeader("D1", <<>>, 500, 0, 2)
hRel == BlockHeader("D1", <<"a", "/", "b">>, 500, 0, 2)
hRoot == BlockHeader("D1", <<"/">>, 500, 0, 2)
hFG == BlockHeader("D1", <<"/", "f", "/", "g">>, 500, 0, 2)

In(src, cmd, data, headers) == Packet(src, "", cmd, <<>>, data, headers)

\* The traffic of a run is drawn from one of these families of packets.
Listing ==
  { In("D1", HB, ZeroBlock, <<>>),
    In("D1", LIST, ZeroBlock, <<hA0, hA1>>) }

ListingFlat ==
  { In("D1", HB, ZeroBlock, <<>>),
    In("D1", LIST, ZeroBlock, <<hF0, hF1>>) }

Relisting ==
  { In("D1", LIST, ZeroBlock, <<hF0>>),
    In("D1", LIST, ZeroBlock, <<hE>>) }

Rejected ==
  { In("D1", LIST, ZeroBlock, <<hUnknown>>),
    In("D1", LIST, ZeroBlock, <<hEmpty>>),
    In(ClientID, GETHEADERS, ZeroBlock, <<BlockHeader("", Pnope, 0, 0, 0)>>) }

Unrooted ==
  { In("D1", LIST, ZeroBlock, <<hRel>>),
    In("D1", LIST, ZeroBlock, <<hRoot>>) }

FileAsDir ==
  { In("D1", LIST, ZeroBlock, <<hF0>>),
    In("D1", LIST, ZeroBlock, <<hFG>>) }

Balancing ==
  { In("D1", HB, ZeroBlock, <<>>),
    In("D2", HB, ZeroBlock, <<>>),
    In(ClientID, DISTRIBUTE, Block(BlockHeader("", Pf, 500, 0, 2), "x"), <<>>) }

Reading ==
  { In("D1", LIST, ZeroBlock, <<hF0>>),
    In("D1", LIST, ZeroBlock, <<hF1>>),
    In(ClientID, GETHEADERS, ZeroBlock, <<hF0>>) }

Replicas ==
  { In("D1", LIST, ZeroBlock, <<hF0>>),
    In("D2", LIST, ZeroBlock, <<hG0>>),
    In(ClientID, GETHEADERS, ZeroBlock, <<hF0>>) }

Blocks ==
  { In("D1", HB, ZeroBlock, <<>>),
    In(ClientID, DISTRIBUTE, Block(BlockHeader("", Pf, 500, 1, 2), "x"), <<>>),
    In("D1", BLOCKACK, ZeroBlock, <<hF1>>) }

Retrieval ==
  { In("D1", HB, ZeroBlock, <<>>),
    In(ClientID, RETRIEVEBLOCK, ZeroBlock, <<hF0>>),
    In("D1", BLOCK, Block(hF0, "x"), <<>>) }

Malformed ==
  { In("", HB, ZeroBlock, <<>>),
    In("D1", HB, ZeroBlock, <<>>),
    In("D2", ACK, ZeroBlock, <<>>),
    In(ClientID, HB, ZeroBlock, <<>>),
    In(ClientID, ACK, ZeroBlock, <<>>) }

Headerless ==
  { In("D1", LIST, ZeroBlock, <<>>),
    In("D1", BLOCKACK, ZeroBlock, <<>>),
    In(ClientID, RETRIEVEBLOCK, ZeroBlock, <<>>),
    In(ClientID, GETHEADERS, ZeroBlock, <<hF0, hF1>>) }

Traffic ==
  {Listing, ListingFlat, Relisting, Rejected, Unrooted, FileAsDir, Reading, Replicas, Blocks,
   Balancing, Retrieval, Malformed, Headerless}

Conns == 1..MaxConns

\* the calls of Decode a run of the family fam is followed for
Budget(fam) == IF fam = Balancing THEN MaxBalancing ELSE MaxPackets

\* -------------------------------------------------------------- the state
VARIABLES
  packets,        \* the packets peers send in this run: one of Traffic
  variant,        \* 1 or 2: which variant of the source runs
  alive,          \* FALSE once an unrecovered panic has ended the process
  tree,           \* the filenodes; tree[RootNode] is root
  filemap,        \* filename -> block number -> headers
  datanodemap,    \* datanode id -> datanode
  clientMap,      \* header -> id of the client that asked for the block
  sendMap,        \* peer id -> the connection its encoder writes to
  sendMapLocked,  \* sendMapLock is held
  cpc,            \* per connection: where its HandleConnection stands
  cur,            \* per connection: the packet being handled (zero between packets)
  pend,           \* per connection: headers still to send on headerChannel
  outq,           \* per connection: packets still to send on sendChannel
  mpc, mh,        \* header merger: "recv" or "merge", and the header being merged
  spc, sp,        \* sender: "recv", or "lock" with the packet it holds
  nDecoded        \* calls of Decode so far

vars == <<packets, variant, alive, tree, filemap, datanodemap, clientMap, sendMap, sendMapLocked,
          cpc, cur, pend, outq, mpc, mh, spc, sp, nDecoded>>

namespace == <<tree, filemap>>
mergerVars == <<mpc, mh>>
senderVars == <<spc, sp, sendMapLocked>>

\* Init, lines 499-523 / 1001-1025, with MaxConns connections accepted
Init ==
  /\ packets \in Traffic
  /\ variant \in {1, 2}
  /\ alive = TRUE
  /\ tree = InitTree
  /\ filemap = <<>>
  /\ datanodemap = <<>>
  /\ clientMap = <<>>
  /\ sendMap = <<>>
  /\ sendMapLocked = FALSE
  /\ cpc = [c \in Conns |-> "first"]
  /\ cur = [c \in Conns |-> ZeroPacket]
  /\ pend = [c \in Conns |-> <<>>]
  /\ outq = [c \in Conns |-> <<>>]
  /\ mpc = "recv"
  /\ mh = ZeroHeader
  /\ spc = "recv"
  /\ sp = ZeroPacket
  /\ nDecoded = 0

\* where a receiver stands once its handler has nothing more to send
AfterSends(hdrs, out) ==
  IF hdrs # <<>> THEN "hdr" ELSE IF out # <<>> THEN "reply" ELSE "loop"

\* p while HandlePacket(p) runs, the zero Packet once it has returned
Current(p, pc) == IF pc = "loop" THEN ZeroPacket ELSE p

\* filemap as HandlePacket(p) reads it: only a client's GETHEADERS reads it
\* (lines 370-391 / 882-890, no lock taken), and the merger may be inside
\* MergeNode(mh) then
FilemapViews(p) ==
  IF p.SRC = ClientID /\ p.CMD = GETHEADERS /\ mpc = "merge"
    THEN MergeViews(variant, mh, tree, filemap, datanodemap)
    ELSE {filemap}

\* HandlePacket(p) on connection c, up to its first channel send
Handle(c, p, dst) ==
  \E fm \in FilemapViews(p) :
  LET res == HandlePacket(variant, p, fm, clientMap, datanodemap, dst) IN
  /\ clientMap' = res.cm
  /\ datanodemap' = IF res.list /\ res.hdrs = <<>>
                      THEN [res.dm EXCEPT ![p.SRC].listed = TRUE] ELSE res.dm
  /\ pend' = [pend EXCEPT ![c] = res.hdrs]
  /\ outq' = [outq EXCEPT ![c] = res.out]
  /\ cpc' = [cpc EXCEPT ![c] = AfterSends(res.hdrs, res.out)]
  /\ cur' = [cur EXCEPT ![c] = Current(p, AfterSends(res.hdrs, res.out))]

\* the datanode DistributeBlock may pick (any value when it picks none)
Picks(p) ==
  IF p.SRC = ClientID /\ p.CMD = DISTRIBUTE /\ DOMAIN datanodemap # {}
    THEN DistributeChoices(variant, datanodemap) ELSE {""}

\* HandleConnection lines 478-484 and CheckConnection lines 453-465: the first
\* packet is decoded and the datanode record added; sendMapLock.Lock() is next
First(c, p) ==
  /\ alive /\ cpc[c] = "first" /\ nDecoded < Budget(packets)
  /\ IF c = 1 THEN TRUE ELSE cpc[c - 1] # "first"
  /\ nDecoded' = nDecoded + 1
  /\ cur' = [cur EXCEPT ![c] = p]
  /\ datanodemap' = IF p.SRC # ClientID /\ p.SRC \notin DOMAIN datanodemap
                      THEN (p.SRC :> datanode(p.SRC, FALSE, 0)) @@ datanodemap
                      ELSE datanodemap
  /\ cpc' = [cpc EXCEPT ![c] = "register"]
  /\ UNCHANGED <<packets, variant, alive, namespace, clientMap, sendMap, pend, outq, mergerVars,
                 senderVars>>

\* lines 480-484: the first Decode fails and the zero Packet goes to CheckConnection
FirstDecodeError(c) == First(c, ZeroPacket)

\* CheckConnection lines 455-457 / 466-471: register the encoder, handle the packet
Register(c) ==
  /\ alive /\ cpc[c] = "register" /\ ~sendMapLocked
  /\ sendMap' = (cur[c].SRC :> c) @@ sendMap
  /\ \E dst \in Picks(cur[c]) : Handle(c, cur[c], dst)
  /\ UNCHANGED <<packets, variant, alive, namespace, mergerVars, senderVars, nDecoded>>

\* HandleConnection lines 487-495: decode the next packet and handle it
Decode(c, p) ==
  /\ alive /\ cpc[c] = "loop" /\ nDecoded < Budget(packets)
  /\ nDecoded' = nDecoded + 1
  /\ \E dst \in Picks(p) : Handle(c, p, dst)
  /\ UNCHANGED <<packets, variant, alive, namespace, sendMap, mergerVars, senderVars>>

\* lines 489-493: Decode fails and the receiver returns
DecodeError(c) ==
  /\ alive /\ cpc[c] = "loop" /\ nDecoded < Budget(packets)
  /\ nDecoded' = nDecoded + 1
  /\ cpc' = [cpc EXCEPT ![c] = "closed"]
  /\ UNCHANGED <<packets, variant, alive, namespace, datanodemap, clientMap, sendMap, cur, pend, outq,
                 mergerVars, senderVars>>

\* headerChannel <- h (lines 412, 420) meets `for h := range headerChannel` (127)
MergerRecv(c) ==
  /\ alive /\ cpc[c] = "hdr" /\ mpc = "recv"
  /\ mh' = Head(pend[c])
  /\ mpc' = "merge"
  /\ pend' = [pend EXCEPT ![c] = Tail(@)]
  /\ IF Len(pend[c]) = 1
       THEN /\ cpc' = [cpc EXCEPT ![c] = AfterSends(<<>>, outq[c])]
            /\ cur' = [cur EXCEPT ![c] = Current(@, AfterSends(<<>>, outq[c]))]
            /\ datanodemap' = IF cur[c].CMD = LIST
                                THEN [datanodemap EXCEPT ![cur[c].SRC].listed = TRUE]
                                ELSE datanodemap
       ELSE UNCHANGED <<cpc, cur, datanodemap>>
  /\ UNCHANGED <<packets, variant, alive, namespace, clientMap, sendMap, outq, senderVars, nDecoded>>

\* HandleBlockHeaders line 128: MergeNode(h).  Variant 1 has no recover: a panic
\* ends the process; variant 2 recovers (lines 675-681) and the loop goes on.
MergeStep ==
  /\ alive /\ mpc = "merge"
  /\ LET st == MergeNode(variant, mh, tree, filemap, datanodemap) IN
     /\ tree' = st.tree
     /\ filemap' = st.filemap
     /\ datanodemap' = st.dmap
     /\ alive' = ~(st.res = "panic" /\ variant = 1)
  /\ mpc' = "recv"
  /\ mh' = ZeroHeader
  /\ UNCHANGED <<packets, variant, clientMap, sendMap, cpc, cur, pend, outq, senderVars, nDecoded>>

\* the encode of lines 282-291 under the lock: a missing encoder `continue`s past
\* the Unlock of line 291 and leaves the lock held; an Encode that fails is
\* logged and changes nothing
Encode(p) == sendMapLocked' = (p.DST \notin DOMAIN sendMap)

\* SendPackets, one turn of the loop of lines 279-292: sendChannel <- p (lines
\* 273, 445) meets the range, then lock, look up, encode, unlock
SendPackets(c) ==
  /\ alive /\ cpc[c] = "reply" /\ spc = "recv" /\ ~sendMapLocked
  /\ outq' = [outq EXCEPT ![c] = Tail(@)]
  /\ cpc' = [cpc EXCEPT ![c] = AfterSends(<<>>, Tail(outq[c]))]
  /\ cur' = [cur EXCEPT ![c] = Current(@, AfterSends(<<>>, Tail(outq[c])))]
  /\ Encode(Head(outq[c]))
  /\ UNCHANGED <<packets, variant, alive, namespace, datanodemap, clientMap, sendMap,
                 pend, mergerVars, spc, sp, nDecoded>>

\* the same turn when an earlier turn left sendMapLock held: the packet is taken
\* from the channel and sendMapLock.Lock() of line 281 never returns
SendPacketsBlocked(c) ==
  /\ alive /\ cpc[c] = "reply" /\ spc = "recv" /\ sendMapLocked
  /\ sp' = Head(outq[c])
  /\ spc' = "lock"
  /\ outq' = [outq EXCEPT ![c] = Tail(@)]
  /\ cpc' = [cpc EXCEPT ![c] = AfterSends(<<>>, Tail(outq[c]))]
  /\ cur' = [cur EXCEPT ![c] = Current(@, AfterSends(<<>>, Tail(outq[c])))]
  /\ UNCHANGED <<packets, variant, alive, namespace, datanodemap, clientMap, sendMap,
                 sendMapLocked, pend, mergerVars, nDecoded>>

Next ==
  \/ \E c \in Conns, p \in packets : First(c, p)
  \/ \E c \in Conns : FirstDecodeError(c)
  \/ \E c \in Conns : Register(c)
  \/ \E c \in Conns, p \in packets : Decode(c, p)
  \/ \E c \in Conns : DecodeError(c)
  \/ \E c \in Conns : MergerRecv(c)
  \/ MergeStep
  \/ \E c \in Conns : SendPackets(c)
  \/ \E c \in Conns : SendPacketsBlocked(c)

Spec == Init /\ [][Next]_vars

\* the runs of variant 1 (lines 1-534) alone
InitV1 == Init /\ variant = 1

SpecV1 == InitV1 /\ [][Next]_vars

\* ======================================================================
\* Properties
\* ======================================================================

\* connection c handles packet p in this step (as its first packet or a later one)
Handles(c, p) == (cur[c] = p /\ Register(c)) \/ Decode(c, p)

Inputs == packets \cup {ZeroPacket}

InSeq(arr, h) == \E k \in 1..Len(arr) : arr[k] = h

\* h is stored in the slot of its file name and block number
Stored(h) ==
  /\ h.Filename \in DOMAIN filemap
  /\ h.BlockNum \in DOMAIN filemap[h.Filename]
  /\ InSeq(filemap[h.Filename][h.BlockNum], h)

\* the distinct headers stored in filemap
StoredHeaders ==
  UNION {UNION {{filemap[f][i][k] : k \in 1..Len(filemap[f][i])} : i \in DOMAIN filemap[f]} :
         f \in DOMAIN filemap}

RECURSIVE SumSize(_)
SumSize(S) == IF S = {} THEN 0 ELSE LET h == CHOOSE x \in S : TRUE IN h.Size + SumSize(S \ {h})

\* the paths of the tree's nodes below root
TreePaths == {tree[n].path : n \in 2..Len(tree)}

\* node n is the parent of no node
IsLeaf(n) == \A m \in 1..Len(tree) : tree[m].parent # n

Listed(d) == d \in DOMAIN datanodemap /\ datanodemap[d].listed
Unlisted(d) == d \in DOMAIN datanodemap /\ ~datanodemap[d].listed

Pa == <<"/", "a">>
HBofD1 == In("D1", HB, ZeroBlock, <<>>)

\* ---------------------------------------------------------------------- C1
\* C1: scenario S1.  On an empty namenode the HB of the unlisted D1 is answered
\* with LIST addressed to D1; each merge of a header of D1's LIST
\* <<hA0, hA1>> into a namespace that holds nothing but that listing leaves the
\* process running with directory /a and file /a/b in the tree, the header alone
\* in its slot of filemap["/a/b"], and D1's size 500 per header stored (1000
\* after both); an HB of D1 once it is listed is answered with ACK.
S1Only ==
  /\ DOMAIN datanodemap = {"D1"}
  /\ StoredHeaders \subseteq {hA0, hA1}
  /\ DOMAIN filemap \subseteq {Pab}

S1Merged(h) ==
  /\ alive
  /\ {Pa, Pab} \subseteq TreePaths
  /\ Pab \in DOMAIN filemap
  /\ h.BlockNum \in DOMAIN filemap[Pab]
  /\ filemap[Pab][h.BlockNum] = <<h>>
  /\ datanodemap["D1"].size = 500 * Cardinality(StoredHeaders)

C1_FreshListing ==
  [][/\ \A c \in Conns :
          (Unlisted("D1") /\ Handles(c, HBofD1))
            => outq'[c] = <<[Reply(HBofD1) EXCEPT !.CMD = LIST]>>
     /\ \A h \in {hA0, hA1} :
          (mpc = "merge" /\ mh = h /\ S1Only /\ MergeStep) => (S1Merged(h))'
     /\ \A c \in Conns :
          (Listed("D1") /\ Handles(c, HBofD1))
            => outq'[c] = <<[Reply(HBofD1) EXCEPT !.CMD = ACK]>>]_vars

\* ---------------------------------------------------------------------- C2
\* C2: whenever the header merger is between MergeNode calls, the size of every
\* datanode is the sum of the sizes of the distinct headers stored in filemap
\* that name it.
C2_SizeIsSumOfStored ==
  mpc = "recv" =>
    \A d \in DOMAIN datanodemap :
      datanodemap[d].size = SumSize({h \in StoredHeaders : h.DatanodeID = d})

\* ---------------------------------------------------------------------- C3
\* C3: the sender has released the send-map lock whenever it waits for the next
\* packet, also after it has dropped a packet whose dst has no encoder, so it
\* never blocks on the lock and keeps serving the receivers.
C3_LockReleasedAfterDrop == (spc = "recv" => ~sendMapLocked) /\ spc # "lock"

\* ---------------------------------------------------------------------- C4
\* C4: a panic while handling a packet or merging a header ends neither the
\* process nor the task: the receiver is back at its Decode and the merger back
\* at the header channel.
C4_FaultsAreContained ==
  [][/\ \A c \in Conns, p \in Inputs :
          (Handles(c, p) /\ \E dst \in Picks(p) :
             HandlePacket(variant, p, filemap, clientMap, datanodemap, dst).panic)
            => (alive' /\ cpc'[c] = "loop")
     /\ (MergeStep /\ MergeNode(variant, mh, tree, filemap, datanodemap).res = "panic")
            => (alive' /\ mpc' = "recv")]_vars

\* ---------------------------------------------------------------------- C5
\* C5: every header stored in filemap[p][i] has file name p and block number i,
\* and the keys of filemap are exactly the paths of the leaf nodes of the tree.
C5_WellFormedNamespace ==
  /\ \A f \in DOMAIN filemap : \A i \in DOMAIN filemap[f] : \A k \in 1..Len(filemap[f][i]) :
       filemap[f][i][k].Filename = f /\ filemap[f][i][k].BlockNum = i
  /\ \A n \in 2..Len(tree) : IsLeaf(n) => tree[n].path \in DOMAIN filemap
  /\ \A f \in DOMAIN filemap : \E n \in 2..Len(tree) : tree[n].path = f /\ IsLeaf(n)

\* ---------------------------------------------------------------------- C6
\* C6: merging a header that filemap already stores changes neither the tree nor
\* filemap, and no slot of filemap ever holds the same header twice.
NoDuplicateHeaders ==
  \A f \in DOMAIN filemap : \A i \in DOMAIN filemap[f] :
    \A k1, k2 \in 1..Len(filemap[f][i]) : filemap[f][i][k1] = filemap[f][i][k2] => k1 = k2

C6_MergeIsIdempotent ==
  [][/\ NoDuplicateHeaders'
     /\ (mpc = "merge" /\ Stored(mh) /\ MergeStep) => (tree' = tree /\ filemap' = filemap)]_vars

\* hF0 was merged twice in variant 1 (its size is counted twice) and is stored once
C6_Witness ==
  /\ mpc = "recv" /\ StoredHeaders = {hF0} /\ filemap[Pf][0] = <<hF0>>
  /\ datanodemap["D1"].size = 2 * hF0.Size

\* ---------------------------------------------------------------------- C7
\* C7: a datanode record is created with listed false; listed never goes back to
\* false and no record is removed (a reconnect keeps it); listed becomes true
\* exactly when the dispatch of a LIST packet of that datanode has handed its
\* headers over; an HB of a datanode is answered with LIST while listed is false
\* and with ACK once it is true.
ListCompletes(d) ==
  \E c \in Conns :
    \/ /\ cpc[c] = "hdr" /\ cur[c].CMD = LIST /\ cur[c].SRC = d /\ Len(pend[c]) = 1
       /\ MergerRecv(c)
    \/ \E p \in Inputs : p.CMD = LIST /\ p.SRC = d /\ p.Headers = <<>> /\ Handles(c, p)

C7_ListedProgression ==
  [][/\ \A d \in DOMAIN datanodemap' :
          d \notin DOMAIN datanodemap => ~datanodemap'[d].listed
     /\ \A d \in DOMAIN datanodemap :
          /\ d \in DOMAIN datanodemap'
          /\ datanodemap[d].listed => datanodemap'[d].listed
          /\ (~datanodemap[d].listed /\ datanodemap'[d].listed) => ListCompletes(d)
          /\ ListCompletes(d) => datanodemap'[d].listed
     /\ \A c \in Conns, p \in Inputs :
          (p.CMD = HB /\ p.SRC \notin {"", ClientID} /\ p.SRC \in DOMAIN datanodemap
             /\ Handles(c, p))
            => outq'[c] = <<[Reply(p) EXCEPT
                              !.CMD = IF datanodemap[p.SRC].listed THEN ACK ELSE LIST]>>]_vars

\* the HB of the listed D1 is being answered with ACK
C7_Witness ==
  \E c \in Conns :
    /\ cpc[c] = "reply" /\ cur[c] = HBofD1 /\ Listed("D1")
    /\ outq[c] = <<[Reply(HBofD1) EXCEPT !.CMD = ACK]>>

\* ---------------------------------------------------------------------- C8
\* C8: a client GETHEADERS with one header for a path that is no key of filemap,
\* or that lacks a slot below the numBlocks of its first header, is answered
\* with exactly one ERROR packet addressed to the client.
Complete(f) ==
  /\ f \in DOMAIN filemap
  /\ 0 \in DOMAIN filemap[f]
  /\ \A i \in 0..(filemap[f][0][1].NumBlocks - 1) : i \in DOMAIN filemap[f]

IsGetHeaders(p) == p.SRC = ClientID /\ p.CMD = GETHEADERS /\ Len(p.Headers) = 1

C8_IncompleteFileGetsError ==
  [][\A c \in Conns, p \in Inputs :
       (IsGetHeaders(p) /\ ~Complete(p.Headers[1].Filename) /\ Handles(c, p))
         => /\ Len(outq'[c]) = 1
            /\ outq'[c][1].CMD = ERROR
            /\ outq'[c][1].DST = p.SRC]_vars

\* ---------------------------------------------------------------------- C9
\* C9: a client GETHEADERS with one header for a path all of whose n slots are
\* filled (n = numBlocks of the first header of slot 0) is answered with exactly
\* one packet {NN, client, GETHEADERS} whose i-th header is the first header of
\* slot i, and changes no namenode state.
FirstHeaders(f) ==
  [k \in 1..filemap[f][0][1].NumBlocks |-> filemap[f][k - 1][1]]

C9_GetHeadersReply ==
  [][\A c \in Conns, p \in Inputs :
       (IsGetHeaders(p) /\ Complete(p.Headers[1].Filename) /\ Handles(c, p))
         => /\ outq'[c] = <<Packet(id, p.SRC, GETHEADERS, <<>>, ZeroBlock,
                                   FirstHeaders(p.Headers[1].Filename))>>
            /\ UNCHANGED <<tree, filemap, datanodemap, clientMap>>]_vars

\* a GETHEADERS is being answered with the headers of a slot that holds two
C9_Witness ==
  \E c \in Conns :
    /\ cpc[c] = "reply" /\ IsGetHeaders(cur[c])
    /\ Len(outq[c]) = 1 /\ outq[c][1].CMD = GETHEADERS /\ Len(outq[c][1].Headers) >= 1
    /\ Complete(Pf) /\ Len(filemap[Pf][0]) = 2

\* --------------------------------------------------------------------- C10
\* C10: a client RETRIEVEBLOCK with one header h enqueues exactly one packet
\* {NN, h.datanodeId, RETRIEVEBLOCK, <<h>>} and sets clientMap[h] to the client;
\* clientMap[h] changes only so, and no entry of clientMap is ever removed.
IsRetrieveBlock(p) == p.SRC = ClientID /\ p.CMD = RETRIEVEBLOCK /\ Len(p.Headers) = 1

C10_RetrieveBlockRouting ==
  [][/\ \A c \in Conns, p \in Inputs :
          (IsRetrieveBlock(p) /\ Handles(c, p))
            => /\ outq'[c] = <<Packet(id, p.Headers[1].DatanodeID, RETRIEVEBLOCK, <<>>,
                                      ZeroBlock, p.Headers)>>
               /\ p.Headers[1] \in DOMAIN clientMap'
               /\ clientMap'[p.Headers[1]] = p.SRC
     /\ \A h \in DOMAIN clientMap : h \in DOMAIN clientMap'
     /\ \A h \in DOMAIN clientMap' :
          (h \notin DOMAIN clientMap \/ clientMap'[h] # clientMap[h])
            => \E c \in Conns, p \in Inputs :
                 IsRetrieveBlock(p) /\ p.Headers = <<h>> /\ Handles(c, p)
                   /\ clientMap'[h] = p.SRC]_vars

\* the RETRIEVEBLOCK for hF0 is on its way to D1 and the client is recorded
C10_Witness ==
  \E c \in Conns :
    /\ cpc[c] = "reply" /\ IsRetrieveBlock(cur[c])
    /\ outq[c] = <<Packet(id, "D1", RETRIEVEBLOCK, <<>>, ZeroBlock, <<hF0>>)>>
    /\ hF0 \in DOMAIN clientMap /\ clientMap[hF0] = ClientID

\* --------------------------------------------------------------------- C11
\* C11: a client RETRIEVEBLOCK or GETHEADERS whose header list does not hold
\* exactly one header is answered with exactly one ERROR packet addressed to the
\* client with a non-empty err; no header goes to the merger, and clientMap,
\* filemap, the tree and the datanode records are unchanged.
IsBadRequest(p) ==
  p.SRC = ClientID /\ p.CMD \in {RETRIEVEBLOCK, GETHEADERS} /\ Len(p.Headers) # 1

C11_BadRequestGetsError ==
  [][\A c \in Conns, p \in Inputs :
       (IsBadRequest(p) /\ Handles(c, p))
         => /\ Len(outq'[c]) = 1
            /\ outq'[c][1].CMD = ERROR
            /\ outq'[c][1].DST = p.SRC
            /\ outq'[c][1].Err # <<>>
            /\ pend'[c] = <<>>
            /\ UNCHANGED <<tree, filemap, datanodemap, clientMap>>]_vars

\* --------------------------------------------------------------------- C12
\* C12: every BLOCKACK of a known datanode is answered with exactly one ACK
\* addressed to that datanode; its header goes to the header merger exactly when
\* the packet carries one, and a BLOCKACK without headers hands nothing over and
\* is still answered with ACK.
IsBlockAck(p) ==
  p.CMD = BLOCKACK /\ p.SRC \notin {"", ClientID} /\ p.SRC \in DOMAIN datanodemap

C12_BlockAckIsAcked ==
  [][\A c \in Conns, p \in Inputs :
       (IsBlockAck(p) /\ Handles(c, p))
         => /\ outq'[c] = <<Packet(id, p.SRC, ACK, <<>>, ZeroBlock, <<>>)>>
            /\ pend'[c] = IF Len(p.Headers) = 1 THEN p.Headers ELSE <<>>]_vars

\* --------------------------------------------------------------------- C13
\* C13: a packet with an empty src, or with a cmd the dispatcher does not handle
\* for its sender (a client: other than HB, DISTRIBUTE, RETRIEVEBLOCK,
\* GETHEADERS; a datanode: other than HB, LIST, BLOCKACK, BLOCK), changes no
\* state of the dispatcher and enqueues no packet and no header.
IsUnhandled(p) ==
  \/ p.SRC = ""
  \/ p.SRC = ClientID /\ p.CMD \notin {HB, DISTRIBUTE, RETRIEVEBLOCK, GETHEADERS}
  \/ p.SRC \notin {"", ClientID} /\ p.CMD \notin {HB, LIST, BLOCKACK, BLOCK}

C13_UnhandledIsDropped ==
  [][\A c \in Conns, p \in Inputs :
       (IsUnhandled(p) /\ Handles(c, p))
         => /\ outq'[c] = <<>>
            /\ pend'[c] = <<>>
            /\ UNCHANGED <<tree, filemap, datanodemap, clientMap>>]_vars

\* --------------------------------------------------------------------- C14
\* C14: for a header of a known datanode with a file name, MergeNode stores the
\* header in filemap when blockNum = numBlocks - 1, and when blockNum = numBlocks
\* it returns an error and leaves the tree, filemap and the datanode records as
\* they were.
StoredIn(fm, h) ==
  /\ h.Filename \in DOMAIN fm
  /\ h.BlockNum \in DOMAIN fm[h.Filename]
  /\ InSeq(fm[h.Filename][h.BlockNum], h)

Merges(h) == mpc = "merge" /\ mh = h /\ MergeStep

MergeInputs == UNION {{p.Headers[k] : k \in 1..Len(p.Headers)} : p \in packets}

C14_BlockNumBounds ==
  [][\A h \in MergeInputs :
       (h.DatanodeID \in DOMAIN datanodemap /\ h.Filename # <<>> /\ Merges(h))
         => /\ h.BlockNum = h.NumBlocks - 1 => StoredIn(filemap', h)
            /\ h.BlockNum = h.NumBlocks
                 => /\ MergeNode(variant, h, tree, filemap, datanodemap).res = "err"
                    /\ UNCHANGED <<tree, filemap, datanodemap>>]_vars

\* --------------------------------------------------------------------- C15
\* C15: connections are numbered in the order the listener accepts them.  For
\* every peer id, sendMap[id] is the latest accepted connection that presented
\* the id, so a registration never moves it back to an earlier connection; and
\* the sender never encodes a packet for the id on a connection earlier than one
\* that has presented the id.
Presents(c, d) == cpc[c] = "register" /\ cur[c].SRC = d

Encodes(d) == \E c \in Conns : SendPackets(c) /\ outq[c] # <<>> /\ Head(outq[c]).DST = d

C15_LatestEncoder ==
  [][\A d \in DOMAIN sendMap :
       /\ d \in DOMAIN sendMap' /\ sendMap'[d] >= sendMap[d]
       /\ Encodes(d) => ~\E c2 \in Conns : c2 > sendMap[d] /\ Presents(c2, d)]_vars

\* --------------------------------------------------------------------- C16
\* C16: a client DISTRIBUTE dispatched while there is no datanode record is
\* answered with exactly one ACK to the client; no BLOCK packet is enqueued and
\* the tree, filemap, the datanode records and clientMap are unchanged.
IsDistribute(p) == p.SRC = ClientID /\ p.CMD = DISTRIBUTE

C16_DistributeWithoutDatanodes ==
  [][\A c \in Conns, p \in Inputs :
       (IsDistribute(p) /\ DOMAIN datanodemap = {} /\ Handles(c, p))
         => /\ outq'[c] = <<Packet(id, p.SRC, ACK, <<>>, ZeroBlock, <<>>)>>
            /\ pend'[c] = <<>>
            /\ UNCHANGED <<tree, filemap, datanodemap, clientMap>>]_vars

\* a DISTRIBUTE is being answered with the ACK alone while no datanode is known
C16_Witness ==
  \E c \in Conns :
    /\ cpc[c] = "reply" /\ IsDistribute(cur[c]) /\ DOMAIN datanodemap = {}
    /\ outq[c] = <<Packet(id, ClientID, ACK, <<>>, ZeroBlock, <<>>)>>

\* --------------------------------------------------------------------- C17
\* C17: the tree and filemap change only in a step of the header merger; no
\* GETHEADERS is dispatched while a MergeNode call is in progress, and the reply
\* to a GETHEADERS is the one that filemap as it stands before or after a whole
\* merge gives, never that of a state within a merge.
WholeMerges ==
  IF mpc = "merge"
    THEN {filemap, MergeNode(variant, mh, tree, filemap, datanodemap).filemap}
    ELSE {filemap}

C17_NamespaceIsolation ==
  [][/\ <<tree, filemap>>' # <<tree, filemap>> => MergeStep
     /\ \A c \in Conns, p \in Inputs :
          (IsGetHeaders(p) /\ Handles(c, p))
            => /\ mpc # "merge"
               /\ \E fm \in WholeMerges :
                    outq'[c] = HandlePacket(variant, p, fm, clientMap, datanodemap, "").out]_vars

\* --------------------------------------------------------------------- C18
\* C18: when the ACK that answers a datanode's LIST is handed to the sender (the
\* datanode is listed by then), the header merger has finished MergeNode for
\* every header of that LIST: none of them is still being merged, so a
\* GETHEADERS dispatched from then on finds them all in filemap.
AcksList(c) ==
  /\ cpc[c] = "reply" /\ cur[c].CMD = LIST /\ cur[c].SRC \notin {"", ClientID}
  /\ SendPackets(c) \/ SendPacketsBlocked(c)

C18_ListMergedBeforeAck ==
  [][\A c \in Conns :
       AcksList(c) => /\ Listed(cur[c].SRC)
                      /\ ~(mpc = "merge" /\ InSeq(cur[c].Headers, mh))]_vars

\* --------------------------------------------------------------------- C19
\* C19: a client DISTRIBUTE dispatched while a datanode record exists enqueues
\* exactly one packet {NN, BLOCK}: its dst is the id of a datanode record, its
\* block carries that id as header.datanodeId and otherwise the header fields
\* and the payload of the submitted block; the ACK to the client follows it.
C19_DistributeEmitsBlock ==
  [][\A c \in Conns, p \in Inputs :
       (IsDistribute(p) /\ DOMAIN datanodemap # {} /\ Handles(c, p))
         => /\ Len(outq'[c]) = 2
            /\ outq'[c][1].SRC = id /\ outq'[c][1].CMD = BLOCK
            /\ outq'[c][1].DST \in DOMAIN datanodemap
            /\ outq'[c][1].Data.Header = [p.Data.Header EXCEPT !.DatanodeID = outq'[c][1].DST]
            /\ outq'[c][1].Data.Data = p.Data.Data
            /\ outq'[c][2] = Packet(id, p.SRC, ACK, <<>>, ZeroBlock, <<>>)]_vars

\* the block of a DISTRIBUTE is on its way to D1, patched with D1's id, and the
\* ACK waits behind it
C19_Witness ==
  \E c \in Conns :
    /\ cpc[c] = "reply" /\ IsDistribute(cur[c]) /\ Len(outq[c]) = 2
    /\ outq[c][1].CMD = BLOCK /\ outq[c][1].DST = "D1"
    /\ outq[c][1].Data.Header.DatanodeID = "D1"
    /\ outq[c][1].Data.Header.Filename = cur[c].Data.Header.Filename
    /\ outq[c][2].CMD = ACK

\* --------------------------------------------------------------------- C20
\* C20: handling a DISTRIBUTE leaves the tree, filemap, every datanode record
\* (size and listed) and clientMap unchanged; filemap gains a header, and a
\* datanode's size grows, only in the merge of a header that a LIST or a
\* BLOCKACK carried.
SizeChanges ==
  \E d \in DOMAIN datanodemap :
    d \in DOMAIN datanodemap' /\ datanodemap'[d].size # datanodemap[d].size

FromListOrBlockAck(h) ==
  \E p \in packets :
    p.SRC \notin {"", ClientID} /\ p.CMD \in {LIST, BLOCKACK} /\ InSeq(p.Headers, h)

C20_DistributeIsNotEager ==
  [][/\ \A c \in Conns, p \in Inputs :
          (IsDistribute(p) /\ Handles(c, p))
            => UNCHANGED <<tree, filemap, datanodemap, clientMap>>
     /\ (filemap' # filemap \/ SizeChanges)
          => (mpc = "merge" /\ FromListOrBlockAck(mh) /\ MergeStep)]_vars

\* --------------------------------------------------------------------- C21
\* C21: when Decode fails on a connection, on its first packet or a later one,
\* its receiver ends there: it dispatches nothing afterwards, and the failure
\* adds or changes no datanode record and no entry of sendMap (none keyed by
\* the empty id in particular).
C21_DecodeErrorEndsReceiver ==
  [][\A c \in Conns :
       /\ (FirstDecodeError(c) \/ DecodeError(c))
            => /\ cpc'[c] = "closed"
               /\ UNCHANGED <<datanodemap, sendMap, tree, filemap, clientMap>>
       /\ cpc[c] = "closed" => cpc'[c] = "closed"]_vars

\* --------------------------------------------------------------------- C22
\* C22: MergeNode on a header whose datanodeId is no key of datanodemap, or
\* whose file name is empty, does not begin with "/", or has no non-empty
\* segment, returns an error and leaves the tree, filemap and the datanode
\* records as they were.
NoSegment(f) == \A k \in 1..Len(f) : f[k] = "/"

BadMergeInput(h) ==
  \/ h.DatanodeID \notin DOMAIN datanodemap
  \/ h.Filename = <<>>
  \/ h.Filename[1] # "/"
  \/ NoSegment(h.Filename)

C22_MergeValidates ==
  [][\A h \in MergeInputs :
       (BadMergeInput(h) /\ Merges(h))
         => /\ MergeNode(variant, h, tree, filemap, datanodemap).res = "err"
            /\ UNCHANGED <<tree, filemap, datanodemap>>]_vars

\* --------------------------------------------------------------------- C23
\* C23: merging a header whose file name is the path of a directory node of the
\* tree, or runs through a path that is a file (a key of filemap), is rejected:
\* MergeNode returns an error, the process goes on, and the tree, filemap and
\* the datanode records are as before the call.
IsDirectory(f) == f \notin DOMAIN filemap /\ \E n \in 2..Len(tree) : tree[n].path = f

ThroughFile(f) ==
  \E i \in 1..(Len(Split(f)) - 2) : Join(SubSeq(Split(f), 1, i + 1)) \in DOMAIN filemap

C23_FileDirectoryConflict ==
  [][\A h \in MergeInputs :
       (/\ h.DatanodeID \in DOMAIN datanodemap
        /\ IsDirectory(h.Filename) \/ ThroughFile(h.Filename)
        /\ Merges(h))
         => /\ MergeNode(variant, h, tree, filemap, datanodemap).res = "err"
            /\ alive'
            /\ UNCHANGED <<tree, filemap, datanodemap>>]_vars

\* --------------------------------------------------------------------- C24
\* C24: under the least-loaded-first policy (variant 2) the datanode a
\* DISTRIBUTE is sent to has, when it is chosen, a size no greater than the
\* size of any datanode record.
C24_LeastLoadedFirst ==
  [][\A c \in Conns, p \in Inputs :
       (variant = 2 /\ IsDistribute(p) /\ DOMAIN datanodemap # {} /\ Handles(c, p))
         => /\ outq'[c] # <<>>
            /\ outq'[c][1].DST \in DOMAIN datanodemap
            /\ \A e \in DOMAIN datanodemap :
                 datanodemap[outq'[c][1].DST].size <= datanodemap[e].size]_vars

\* D1 holds the first block, and the second DISTRIBUTE goes to D2, which held
\* nothing when it was chosen
C24_Witness ==
  \E c \in Conns :
    /\ variant = 2 /\ cpc[c] = "reply" /\ IsDistribute(cur[c]) /\ Len(outq[c]) = 2
    /\ outq[c][1].CMD = BLOCK /\ outq[c][1].DST = "D2"
    /\ DOMAIN datanodemap = {"D1", "D2"}
    /\ datanodemap["D1"].size = 500 /\ datanodemap["D2"].size = 500

====
